---- MODULE Spec2Model ----
(***************************************************************************)
(* Streaming pipeline of parakeet_service: the /ws handler of              *)
(* stream_routes.py (producer, consumer), the lifespan of model.py, and    *)
(* the collaborators stream_routes.py imports (StreamingVAD, the batch     *)
(* worker with its queue, condition and results map), and the one-shot    *)
(* transcription handler of routes.py that shares the model.               *)
(*                                                                         *)
(* The event loop is single threaded: one action is the code a task runs   *)
(* between two awaits that can suspend it.                                 *)
(***************************************************************************)
EXTENDS Integers, Sequences, FiniteSets, TLC

\* ------------------------------------------------------------------ bounds
\* Utterances the Segmenters emit in one run, all sessions together.
MaxUtterances == 2

\* Analysis windows fed to a Segmenter that is run on its own.
MaxWindows == 9

\* Connections of one run.
Sessions == {1, 2}

\* ------------------------------------------------- segmenter parameters
\* Shortest utterance the Segmenter emits, in analysis windows.
MinSpeech == 1
\* Longest utterance the Segmenter emits, in analysis windows.
MaxChunk == 2
\* Non-voiced windows that end an utterance.
SilenceTimeout == 1
\* Largest batch the worker submits to inference.
MaxBatch == 2

\* Frames a client sends: sequences of analysis windows, voiced ("V") or
\* not ("N").  WholeFrames end in silence: after one of them the Segmenter
\* holds no speech.
WholeFrames == { <<"N">>, <<"V", "N">>, <<"V", "N", "V", "N">> }
Frames == WholeFrames \cup { <<"V">> }

\* What a client sends that is no audio: a message receive_bytes cannot
\* return as bytes, or bytes on which vad.feed raises (corrupt or short).
BadFrames == { <<"X">> }

Ids == [sid : Sessions, seq : 1..MaxUtterances]

VARIABLES
    app,                  \* lifespan: "init", "running", "stopped"
    worker,               \* batch_worker task: "none", "idle", "collecting",
                          \*   "inferring", "ok", "failed", "cancelled"
    batch,                \* the worker's current batch
    transcription_queue,  \* batchworker.transcription_queue (FIFO)
    results,              \* batchworker.results, a dict: entries in insertion order
    ws,                   \* transport of each session: "none", "open", "closed"
    handler,              \* ws_asr of each session: "none", "running", "closed"
    client_connected,     \* ws_asr.client_connected
    vad,                  \* ws_asr.vad, the session's StreamingVAD
    nseq,                 \* utterances the session's Segmenter has emitted
    ppc,                  \* producer: "none", "recv", "acking", "done"
    pending,              \* producer: chunks of vad.feed(frame) not yet iterated
    cpc,                  \* consumer: "none", "waiting", "woken", "sending", "done"
    snapshot,             \* consumer: items of list(results.items()) left, head in flight
    flushed,              \* consumer: flushed
    enq,                  \* history: sequence numbers the session put on the queue
    acked,                \* history: {"status": "queued"} messages sent
    delivered,            \* history: {"text": ...} messages sent, as the entries they carry
    written,              \* history: outcome the worker wrote for each identity
    inferred,             \* history: times each identity was passed to inference
    workers,              \* batch_worker tasks created so far
    models,               \* app.state.asr_model, canary_model: "none", "loaded", "released"
    callers,              \* history: the code places that have called model.transcribe
    overlapped,           \* history: a transcribe call began while another was in flight
    errors,               \* history: error notifications sent on each transport
    wokenBy,              \* history: the batch whose broadcast woke the consumer
    mutations,            \* history: the kinds of change made to the queue and to results
    segIn,                \* Segmenter on its own: the windows fed so far
    segOut,               \* Segmenter on its own: the utterances emitted so far
    request,              \* one-shot endpoints: the last request handled
    response              \* one-shot endpoints: what the handler answered to it

vars == << app, worker, batch, transcription_queue, results, ws, handler,
           client_connected, vad, nseq, ppc, pending, cpc, snapshot, flushed,
           enq, acked, delivered, written, inferred, workers, models, callers,
           overlapped, errors, wokenBy, mutations, segIn, segOut, request, response >>

\* What the streaming pipeline's steps leave alone, but for the two below.
side == << workers, models, callers, overlapped, errors, wokenBy, mutations, segIn, segOut, request, response >>

\* The same but for the record of mutations.
quiet == << workers, models, callers, overlapped, errors, wokenBy, segIn, segOut, request, response >>

\* A change of shared state: the task that makes it, the object, whether
\* it adds or removes, and whether the task holds `condition` meanwhile.
Mutation(by, on, op, locked) == [by |-> by, on |-> on, op |-> op, locked |-> locked]

shared == << app, worker, batch, transcription_queue, results, written, inferred >>

\* ------------------------------------------------------------- helpers
Range(q) == { q[i] : i \in 1..Len(q) }

RECURSIVE SumOver(_, _)
SumOver(f, S) ==
    IF S = {} THEN 0
    ELSE LET x == CHOOSE y \in S : TRUE IN f[x] + SumOver(f, S \ {x})

\* --------------------------------------------------------- Segmenter
VadInit == [mode |-> "Silence", buf |-> 0, sil |-> 0]

\* A cap that is tested one window late.
CapExceeded(n) == n > MaxChunk

\* The buffered speech has reached the max-chunk cap.
CapReached(n) == n >= MaxChunk

\* A Segmenter for which no silence is long enough.
SilenceNeverOver(n) == FALSE

\* The trailing silence has lasted for the timeout.
SilenceOver(n) == n >= SilenceTimeout

\* One analysis window: the state after it and the lengths of the
\* utterances it finalizes.
VadWindow(st, w) ==
    IF w = "V"
    THEN IF CapReached(st.buf + 1)
         THEN [vad |-> [mode |-> "Speech", buf |-> 0, sil |-> 0],
               out |-> << st.buf + 1 >>]
         ELSE [vad |-> [mode |-> "Speech", buf |-> st.buf + 1, sil |-> 0],
               out |-> << >>]
    ELSE IF st.mode = "Silence"
         THEN [vad |-> st, out |-> << >>]
         ELSE IF SilenceOver(st.sil + 1)
              THEN [vad |-> VadInit,
                    out |-> IF st.buf >= MinSpeech THEN << st.buf >> ELSE << >>]
              ELSE [vad |-> [st EXCEPT !.sil = st.sil + 1], out |-> << >>]

RECURSIVE feed(_, _)
feed(st, frame) ==
    IF frame = << >>
    THEN [vad |-> st, out |-> << >>]
    ELSE LET one  == VadWindow(st, Head(frame))
             rest == feed(one.vad, Tail(frame))
         IN  [vad |-> rest.vad, out |-> one.out \o rest.out]

\* ------------------------------------------- one-shot endpoints: values
\* The Python values model.transcribe can return, as far as the text
\* extraction tells them apart: None, a str, a hypothesis object with a
\* text attribute, an object without one, a list and a tuple.
PyNone == [t |-> "none", items |-> << >>, text |-> ""]

PyStr(chars) == [t |-> "str", items |-> << >>, text |-> chars]

PyHyp(chars) == [t |-> "hyp", items |-> << >>, text |-> chars]

PyObj == [t |-> "obj", items |-> << >>, text |-> ""]

PyList(items) == [t |-> "list", items |-> items, text |-> ""]

PyTuple(items) == [t |-> "tuple", items |-> items, text |-> ""]

\* str(v): v itself for a str, else the str that is v's printed form.
Str(v) == IF v.t = "str" THEN v ELSE [t |-> "str", items |-> << v >>, text |-> "repr"]

\* bool(v)
Truthy(v) ==
    CASE v.t = "none" -> FALSE
      [] v.t = "str" -> v.text # ""
      [] v.t \in {"list", "tuple"} -> v.items # << >>
      [] OTHER -> TRUE

\* getattr(result, 'text', str(result))
GetText(result) == IF result.t = "hyp" THEN PyStr(result.text) ELSE Str(result)

\* An extraction that takes the last element of the list.
ExtractLast(ret) ==
    LET res == IF ret.t = "tuple" THEN ret.items[1] ELSE ret
    IN  IF res.t = "list" /\ Len(res.items) > 0
          THEN GetText(res.items[Len(res.items)])
          ELSE IF Truthy(res) THEN Str(res) ELSE PyStr("")

\* The text extraction of the three route handlers.
ExtractText(ret) ==
    LET res == IF ret.t = "tuple" THEN ret.items[1] ELSE ret
    IN  IF res.t = "list" /\ Len(res.items) > 0
          THEN GetText(res.items[1])
          ELSE IF Truthy(res) THEN Str(res) ELSE PyStr("")

\* The text extraction of the two model wrappers' infer.
InferText(ret) ==
    LET res == IF ret.t = "tuple" THEN ret.items[1] ELSE ret
    IN  IF res.t = "list" /\ Len(res.items) > 0
          THEN GetText(res.items[1])
          ELSE IF Truthy(res) THEN Str(res) ELSE PyStr("")

\* results[0] of an empty tuple raises IndexError.
ExtractRaises(ret) == ret.t = "tuple" /\ ret.items = << >>

Hello == PyHyp("hello")

\* What the model returns in the requests tried.
Returns ==
    { PyNone, PyStr(""), PyStr("raw"), Hello, PyObj,
      PyList(<< >>), PyList(<< Hello >>), PyList(<< PyStr("raw") >>),
      PyList(<< PyObj >>), PyList(<< Hello, PyHyp("again") >>),
      PyTuple(<< >>), PyTuple(<< PyList(<< Hello >>), PyList(<< >>) >>),
      PyTuple(<< PyList(<< >>) >>), PyTuple(<< Hello >>),
      PyTuple(<< PyList(<< PyStr("raw"), Hello >>) >>) }

\* The handlers of parakeet_service/routes.py, which call model.transcribe
\* themselves, and those of src/main.py, which call a wrapper's infer.
RouteSites ==
    { "transcribe_audio_chunk", "transcribe_raw_audio_chunk",
      "transcribe_raw_audio_chunk_canary" }

MainSites ==
    { "main.transcribe_raw_audio_chunk", "main.transcribe_raw_audio_chunk_canary" }

\* The route handlers that use app.state.asr_model, the worker's model.
SharedModelSites == { "transcribe_audio_chunk", "transcribe_raw_audio_chunk" }

\* The sample rates tried: none, a negative one that the resampler
\* rejects, one that is resampled and the model's own.
Rates == { 0, -1, 8000, 16000 }

\* A request: the sample rate, whether the bytes are whole 16-bit
\* samples ("pcm") or not ("odd": an odd or zero length), whether
\* model.transcribe raises, and what it returns when it does not.
Requests == [rate : Rates, audio : {"pcm", "odd"}, model : {"ok", "raises"}, ret : Returns]

\* Well-formed requests that the model answers with one hypothesis.
PlainRequests == { r \in Requests : r.rate = 16000 /\ r.audio = "pcm" /\ r.model = "ok"
                                    /\ r.ret = PyList(<< Hello >>) }

NoRequest == [site |-> "none", rate |-> 16000, audio |-> "pcm", model |-> "ok", ret |-> PyNone]

NoResponse == [status |-> 0, detail |-> << >>, text |-> PyNone]

Raise(msg) == [raised |-> TRUE, msg |-> << msg >>, text |-> PyNone]

Return(text) == [raised |-> FALSE, msg |-> << >>, text |-> text]

\* The statements under `try` up to the text, in the order of the code:
\* the first that raises ends the block.
TryBlock(req, text) ==
    CASE req.rate = 0 -> Raise("division by zero")
      [] req.audio = "odd" -> Raise("buffer length")
      [] req.rate # 16000 /\ req.rate < 0 -> Raise("resample")
      [] req.model = "raises" -> Raise("model error")
      [] ExtractRaises(req.ret) -> Raise("tuple index out of range")
      [] OTHER -> Return(text)

\* Whether the try block comes to the call of model.transcribe.
CallsModel(req) == req.rate > 0 /\ req.audio = "pcm"

\* An except clause for ValueError only, which lets ZeroDivisionError by.
CatchesValueError(msg) == msg # << "division by zero" >>

\* except Exception
Catches(msg) == TRUE

\* except Exception as exc: raise HTTPException(422, detail=f"{prefix}:
\* {str(exc)}") from exc; an exception the clause does not catch leaves
\* the handler and the server answers 500.
Except(out, prefix) ==
    IF out.raised
      THEN IF Catches(out.msg)
             THEN [status |-> 422, detail |-> << prefix >> \o out.msg, text |-> PyNone]
             ELSE [status |-> 500, detail |-> << >>, text |-> PyNone]
      ELSE [status |-> 200, detail |-> << >>, text |-> out.text]

\* The detail's prefix of each handler.
Prefix(site) ==
    CASE site = "transcribe_audio_chunk" -> "Audio chunk transcription failed"
      [] site \in {"transcribe_raw_audio_chunk", "main.transcribe_raw_audio_chunk"}
           -> "Raw audio transcription failed"
      [] OTHER -> "Canary raw audio transcription failed"

\* ParakeetModel.infer and CanaryModel.infer: the same block, and
\* except Exception as exc: raise RuntimeError(f"... transcription
\* failed: {str(exc)}") from exc.
Infer(site, req) ==
    LET out == TryBlock(req, InferText(req.ret))
        name == IF site = "main.transcribe_raw_audio_chunk"
                  THEN "Parakeet transcription failed"
                  ELSE "Canary transcription failed"
    IN  IF out.raised THEN [out EXCEPT !.msg = << name >> \o out.msg] ELSE out

\* A handler of routes.py on a request.
RouteHandler(site, req) == Except(TryBlock(req, ExtractText(req.ret)), Prefix(site))

\* A handler of src/main.py: result = model.infer(audio_data, sample_rate)
\* and text=result['text'] under the same try and except.
MainHandler(site, req) == Except(Infer(site, req), Prefix(site))

\* ------------------------------------------------------------- Init
Init ==
    /\ app = "init"
    /\ worker = "none"
    /\ batch = << >>
    /\ transcription_queue = << >>
    /\ results = << >>
    /\ ws = [s \in Sessions |-> "none"]
    /\ handler = [s \in Sessions |-> "none"]
    /\ client_connected = [s \in Sessions |-> FALSE]
    /\ vad = [s \in Sessions |-> VadInit]
    /\ nseq = [s \in Sessions |-> 0]
    /\ ppc = [s \in Sessions |-> "none"]
    /\ pending = [s \in Sessions |-> << >>]
    /\ cpc = [s \in Sessions |-> "none"]
    /\ snapshot = [s \in Sessions |-> << >>]
    /\ flushed = [s \in Sessions |-> << >>]
    /\ enq = [s \in Sessions |-> << >>]
    /\ acked = [s \in Sessions |-> 0]
    /\ delivered = [s \in Sessions |-> << >>]
    /\ written = [id \in Ids |-> "none"]
    /\ inferred = [id \in Ids |-> 0]
    /\ workers = 0
    /\ models = "none"
    /\ callers = {}
    /\ overlapped = FALSE
    /\ errors = [s \in Sessions |-> 0]
    /\ wokenBy = [s \in Sessions |-> {}]
    /\ mutations = {}
    /\ segIn = << >>
    /\ segOut = << >>
    /\ request = NoRequest
    /\ response = NoResponse

\* ------------------------------------------------------------ lifespan
\* A lifespan that schedules no worker task.
NoWorker == "none"

\* asyncio.create_task(batch_worker(parakeet_model)): the worker task exists
\* and waits for its first item.
CreateWorker == "idle"

\* A lifespan that creates the worker task twice.
CreateTaskTwice(n) == n + 2

\* app.state.worker = asyncio.create_task(...): one more worker task.
CreateTask(n) == n + 1

Startup ==
    /\ app = "init"
    /\ app' = "running"
    /\ worker' = CreateWorker
    /\ workers' = CreateTask(workers)
    /\ models' = "loaded"
    /\ UNCHANGED << callers, overlapped, errors, wokenBy, mutations, segIn, segOut, request, response >>
    /\ UNCHANGED << batch, transcription_queue, results, ws, handler,
                    client_connected, vad, nseq, ppc, pending, cpc, snapshot,
                    flushed, enq, acked, delivered, written, inferred >>

\* A shutdown that leaves the worker task as it is.
LeaveWorker(w) == w

\* app.state.worker.cancel(); with suppress(CancelledError): await
\* app.state.worker.  The task, if there is one, has ended when the await
\* returns.
CancelWorker(w) == IF w = "none" THEN "none" ELSE "cancelled"

\* The server ends the lifespan once every connection's handler has
\* returned: app.state.worker.cancel(); await app.state.worker.
Shutdown ==
    /\ app = "running"
    /\ \A s \in Sessions : handler[s] # "running"
    /\ app' = "stopped"
    /\ worker' = CancelWorker(worker)
    /\ UNCHANGED side
    /\ UNCHANGED << batch, transcription_queue, results, ws, handler,
                    client_connected, vad, nseq, ppc, pending, cpc, snapshot,
                    flushed, enq, acked, delivered, written, inferred >>

\* The rest of the finally block, after the await of the worker:
\* del app.state.asr_model; del app.state.canary_model; empty_cache().
ReleaseModels ==
    /\ app = "stopped"
    /\ models = "loaded"
    /\ models' = "released"
    /\ UNCHANGED << shared, ws, handler, client_connected, vad, nseq, ppc,
                    pending, cpc, snapshot, flushed, enq, acked, delivered,
                    workers, callers, overlapped, errors, wokenBy, mutations,
                    segIn, segOut, request, response >>

\* ------------------------------------------------------------ transport
\* await ws.accept(); vad = StreamingVAD(); client_connected = True;
\* gather starts the producer, which suspends in receive_bytes, and the
\* consumer, which suspends in condition.wait.
Accept(s) ==
    /\ app = "running"
    /\ handler[s] = "none"
    /\ ws' = [ws EXCEPT ![s] = "open"]
    /\ handler' = [handler EXCEPT ![s] = "running"]
    /\ client_connected' = [client_connected EXCEPT ![s] = TRUE]
    /\ vad' = [vad EXCEPT ![s] = VadInit]
    /\ ppc' = [ppc EXCEPT ![s] = "recv"]
    /\ cpc' = [cpc EXCEPT ![s] = "waiting"]
    /\ UNCHANGED side
    /\ UNCHANGED << shared, nseq, pending, snapshot, flushed, enq, acked, delivered >>

\* The client goes away: every later receive or send on the transport raises.
ClientDisconnect(s) ==
    /\ app = "running"
    /\ ws[s] = "open"
    /\ ws' = [ws EXCEPT ![s] = "closed"]
    /\ UNCHANGED side
    /\ UNCHANGED << shared, handler, client_connected, vad, nseq, ppc, pending,
                    cpc, snapshot, flushed, enq, acked, delivered >>

\* ------------------------------------------------------------ producer
\* A put that appends the chunk twice.
PutTwice(q, chunk) == Append(Append(q, chunk), chunk)

\* A put that adds the chunk at the head.
PutFront(q, chunk) == << chunk >> \o q

\* await transcription_queue.put(chunk): put appends at the tail.
Put(q, chunk) == Append(q, chunk)

\* A queue of capacity one: put suspends while an item is waiting.
RoomForOne(q) == Len(q) < 1

\* The queue is unbounded: put finds room whatever the backlog, and does
\* not suspend the producer.
HasRoom(q) == TRUE

RECURSIVE PutAll(_, _)
PutAll(q, chunks) ==
    IF chunks = << >> THEN q ELSE PutAll(Put(q, Head(chunks)), Tail(chunks))

SeqNos(chunks) == [i \in 1..Len(chunks) |-> chunks[i].seq]

\* The for loop over vad.feed(frame) from the chunk at the head of `chunks`
\* up to the next await that suspends, with client_connected as it is in
\* cc: put, then the acknowledgement if still connected; after the last
\* chunk the while test.
ProducerLoop(s, chunks, cc) ==
    IF chunks = << >>
    THEN /\ ppc' = [ppc EXCEPT ![s] = IF cc THEN "recv" ELSE "done"]
         /\ pending' = [pending EXCEPT ![s] = << >>]
         /\ UNCHANGED << transcription_queue, enq, mutations >>
    ELSE IF cc
         THEN /\ HasRoom(transcription_queue)
              /\ transcription_queue' = Put(transcription_queue, Head(chunks))
              /\ mutations' = mutations \cup {Mutation("producer", "queue", "add", FALSE)}
              /\ enq' = [enq EXCEPT ![s] = Append(@, Head(chunks).seq)]
              /\ pending' = [pending EXCEPT ![s] = Tail(chunks)]
              /\ ppc' = [ppc EXCEPT ![s] = "acking"]
         ELSE /\ HasRoom(transcription_queue)
              /\ transcription_queue' = PutAll(transcription_queue, chunks)
              /\ mutations' = mutations \cup {Mutation("producer", "queue", "add", FALSE)}
              /\ enq' = [enq EXCEPT ![s] = @ \o SeqNos(chunks)]
              /\ pending' = [pending EXCEPT ![s] = << >>]
              /\ ppc' = [ppc EXCEPT ![s] = "done"]

Emitted == SumOver(nseq, Sessions)

\* except Exception as e: logger.error(...); client_connected = False.
\* The try encloses the while loop, so the producer ends here, and nothing
\* is sent on the transport.
ProducerError(s) ==
    /\ client_connected' = [client_connected EXCEPT ![s] = FALSE]
    /\ ppc' = [ppc EXCEPT ![s] = "done"]
    /\ UNCHANGED errors

\* frame = await ws.receive_bytes() returns a frame; vad.feed(frame) gives
\* the utterances it finalizes, numbered by the session's sequence counter.
\* On a bad frame one of the two raises.
ProducerRecv(s, frame) ==
    /\ app = "running"
    /\ ppc[s] = "recv"
    /\ ws[s] = "open"
    /\ IF frame \in BadFrames
       THEN /\ ProducerError(s)
            /\ UNCHANGED << vad, nseq, pending, transcription_queue, enq, mutations >>
       ELSE LET r      == feed(vad[s], frame)
                chunks == [i \in 1..Len(r.out) |-> [sid |-> s, seq |-> nseq[s] + i]]
            IN  /\ Emitted + Len(r.out) <= MaxUtterances
                /\ vad' = [vad EXCEPT ![s] = r.vad]
                /\ nseq' = [nseq EXCEPT ![s] = @ + Len(r.out)]
                /\ ProducerLoop(s, chunks, client_connected[s])
                /\ UNCHANGED << client_connected, errors >>
    /\ UNCHANGED << workers, models, callers, overlapped, wokenBy, segIn, segOut, request, response >>
    /\ UNCHANGED << app, worker, batch, results, written, inferred, ws, handler,
                    cpc, snapshot, flushed, acked, delivered >>

\* await ws.receive_bytes() raises WebSocketDisconnect.
ProducerDisconnect(s) ==
    /\ app = "running"
    /\ ppc[s] = "recv"
    /\ ws[s] = "closed"
    /\ client_connected' = [client_connected EXCEPT ![s] = FALSE]
    /\ ppc' = [ppc EXCEPT ![s] = "done"]
    /\ UNCHANGED side
    /\ UNCHANGED << shared, ws, handler, vad, nseq, pending, cpc, snapshot,
                    flushed, enq, acked, delivered >>

\* A producer that acknowledges a chunk twice.
SendQueuedTwice(n) == n + 2

\* ws.send_json({"status": "queued"}): one more acknowledgement on the
\* transport.
SendQueued(n) == n + 1

\* await ws.send_json({"status": "queued"}) returns; the for loop goes on.
AckOk(s) ==
    /\ app = "running"
    /\ ppc[s] = "acking"
    /\ ws[s] = "open"
    /\ acked' = [acked EXCEPT ![s] = SendQueued(@)]
    /\ ProducerLoop(s, pending[s], client_connected[s])
    /\ UNCHANGED quiet
    /\ UNCHANGED << app, worker, batch, results, written, inferred, ws, handler,
                    client_connected, vad, nseq, cpc, snapshot, flushed, delivered >>

\* await ws.send_json({"status": "queued"}) raises: client_connected = False
\* and break, which leaves the rest of the frame's chunks behind.
AckFail(s) ==
    /\ app = "running"
    /\ ppc[s] = "acking"
    /\ ws[s] = "closed"
    /\ client_connected' = [client_connected EXCEPT ![s] = FALSE]
    /\ pending' = [pending EXCEPT ![s] = << >>]
    /\ ppc' = [ppc EXCEPT ![s] = "done"]
    /\ UNCHANGED side
    /\ UNCHANGED << shared, ws, handler, vad, nseq, cpc, snapshot, flushed,
                    enq, acked, delivered >>

\* ------------------------------------------------------------ consumer
\* A consumer that empties the Result Store at the end of its scan.
PopAll(res, fl) == << >>

\* for p in flushed: results.pop(p, None)
PopFlushed(res, fl) ==
    SelectSeq(res, LAMBDA e : e.id \notin Range(fl))

\* A consumer whose scan is inside the `async with condition` block.
HeldWhileSending == {"sending"}

\* The places at which a suspended consumer holds the condition's lock.
\* `async with condition: await condition.wait()`: wait gives the lock up
\* while it is suspended, and the block is left as soon as wait returns,
\* before the scan: there is no such place.
LockHeldAt == {}

\* No consumer holds the condition's lock.
LockFree == \A t \in Sessions : cpc[t] \notin LockHeldAt

\* list(results.items()): every entry of the dict, in insertion order.
Snapshot(s, res) == res

\* condition.wait() has returned and the lock is released again: the test
\* of client_connected, then the scan up to the first send.
ConsumerWake(s) ==
    /\ app = "running"
    /\ cpc[s] = "woken"
    /\ LockFree
    /\ IF ~client_connected[s]
       THEN /\ cpc' = [cpc EXCEPT ![s] = "done"]
            /\ UNCHANGED << snapshot, flushed >>
       ELSE LET items == Snapshot(s, results)
            IN  /\ snapshot' = [snapshot EXCEPT ![s] = items]
                /\ flushed' = [flushed EXCEPT ![s] = << >>]
                /\ cpc' = [cpc EXCEPT ![s] =
                              IF items = << >> THEN "waiting" ELSE "sending"]
    /\ wokenBy' = [wokenBy EXCEPT ![s] = {}]
    /\ UNCHANGED << workers, models, callers, overlapped, errors, mutations, segIn, segOut, request, response >>
    /\ UNCHANGED << shared, ws, handler, client_connected, vad, nseq, ppc,
                    pending, enq, acked, delivered >>

\* A scan that does not test the flag between two sends.
IgnoreFlag(cc) == TRUE

\* if not client_connected: break, at the head of the scan's loop body.
StillConnected(cc) == cc

\* await ws.send_json({"text": txt}) returns: flushed.append(p), then the
\* next item of the scan, or the pops and the while test after the last.
SendOk(s) ==
    /\ app = "running"
    /\ cpc[s] = "sending"
    /\ ws[s] = "open"
    /\ LET e    == Head(snapshot[s])
           fl   == Append(flushed[s], e.id)
           rest == Tail(snapshot[s])
       IN  /\ delivered' = [delivered EXCEPT ![s] = Append(@, e)]
           /\ IF StillConnected(client_connected[s]) /\ rest # << >>
              THEN /\ snapshot' = [snapshot EXCEPT ![s] = rest]
                   /\ flushed' = [flushed EXCEPT ![s] = fl]
                   /\ UNCHANGED << results, cpc, mutations >>
              ELSE /\ results' = PopFlushed(results, fl)
                   /\ mutations' = mutations \cup
                                       {Mutation("consumer", "results", "remove", FALSE)}
                   /\ snapshot' = [snapshot EXCEPT ![s] = << >>]
                   /\ flushed' = [flushed EXCEPT ![s] = << >>]
                   /\ cpc' = [cpc EXCEPT ![s] =
                                 IF client_connected[s] THEN "waiting" ELSE "done"]
    /\ UNCHANGED quiet
    /\ UNCHANGED << app, worker, batch, transcription_queue, written, inferred,
                    ws, handler, client_connected, vad, nseq, ppc, pending,
                    enq, acked >>

\* await ws.send_json({"text": txt}) raises: client_connected = False and
\* break, then the pops of what was flushed before it.
SendFail(s) ==
    /\ app = "running"
    /\ cpc[s] = "sending"
    /\ ws[s] = "closed"
    /\ client_connected' = [client_connected EXCEPT ![s] = FALSE]
    /\ results' = PopFlushed(results, flushed[s])
    /\ mutations' = IF flushed[s] = << >> THEN mutations
                    ELSE mutations \cup {Mutation("consumer", "results", "remove", FALSE)}
    /\ snapshot' = [snapshot EXCEPT ![s] = << >>]
    /\ flushed' = [flushed EXCEPT ![s] = << >>]
    /\ cpc' = [cpc EXCEPT ![s] = "done"]
    /\ UNCHANGED quiet
    /\ UNCHANGED << app, worker, batch, transcription_queue, written, inferred,
                    ws, handler, vad, nseq, ppc, pending, enq, acked, delivered >>

\* gather has returned both tasks: finally: client_connected = False.
\* Nothing else runs at the end of the handler.
HandlerFinally(s) ==
    /\ app = "running"
    /\ handler[s] = "running"
    /\ ppc[s] = "done"
    /\ cpc[s] = "done"
    /\ handler' = [handler EXCEPT ![s] = "closed"]
    /\ client_connected' = [client_connected EXCEPT ![s] = FALSE]
    /\ UNCHANGED side
    /\ UNCHANGED << shared, ws, vad, nseq, ppc, pending, cpc, snapshot,
                    flushed, enq, acked, delivered >>

\* -------------------------------------------------------- batch worker
Entry(id, outcome) == [id |-> id, outcome |-> outcome]

\* One ResultEntry per item of the batch, keyed by its Identity, in batch
\* order; a key written again keeps its place in the dict.
RECURSIVE WriteAll(_, _, _)
WriteAll(res, items, outcome) ==
    IF items = << >> THEN res
    ELSE LET id == Head(items)
             at == { i \in 1..Len(res) : res[i].id = id }
         IN  WriteAll(IF at = {} THEN Append(res, Entry(id, outcome))
                      ELSE [i \in 1..Len(res) |->
                               IF i \in at THEN Entry(id, outcome) ELSE res[i]],
                      Tail(items), outcome)

\* A worker that starts a batch before it has an item.
EmptyBatch(q) == << >>

\* A batch starts with the item at the head of the queue.
FirstItem(q) == << Head(q) >>

\* A worker that submits full batches only.
OnlyWhenFull(b) == Len(b) >= MaxBatch

\* The batch is full or the wait budget is spent.  Time is not modelled:
\* the budget of a batch that has begun may be spent at any moment.
CanSubmit(b) == TRUE

\* A worker loop that ends when the inference call of a batch has failed.
StopOnFailure(w) == IF w = "failed" THEN "cancelled" ELSE "idle"

\* After the write of a batch, failed or not, the loop waits for the
\* first item of the next one.
NextBatch(w) == "idle"

\* The worker takes the first item of a batch from the head of the queue.
WorkerGet ==
    /\ app = "running"
    /\ worker = "idle"
    /\ transcription_queue # << >>
    /\ batch' = FirstItem(transcription_queue)
    /\ transcription_queue' = Tail(transcription_queue)
    /\ worker' = "collecting"
    /\ mutations' = mutations \cup {Mutation("batch_worker", "queue", "remove", TRUE)}
    /\ UNCHANGED quiet
    /\ UNCHANGED << app, results, written, inferred, ws, handler,
                    client_connected, vad, nseq, ppc, pending, cpc, snapshot,
                    flushed, enq, acked, delivered >>

\* Within the wait budget the worker adds the next item, up to MaxBatch.
WorkerCollect ==
    /\ app = "running"
    /\ worker = "collecting"
    /\ Len(batch) < MaxBatch
    /\ transcription_queue # << >>
    /\ batch' = Append(batch, Head(transcription_queue))
    /\ transcription_queue' = Tail(transcription_queue)
    /\ mutations' = mutations \cup {Mutation("batch_worker", "queue", "remove", TRUE)}
    /\ UNCHANGED quiet
    /\ UNCHANGED << app, worker, results, written, inferred, ws, handler,
                    client_connected, vad, nseq, ppc, pending, cpc, snapshot,
                    flushed, enq, acked, delivered >>

\* The batch is full or the wait budget is spent: the one inference call
\* of the batch starts.
WorkerInfer ==
    /\ app = "running"
    /\ worker = "collecting"
    /\ CanSubmit(batch)
    /\ worker' = "inferring"
    /\ callers' = callers \cup {"batch_worker"}
    /\ inferred' = [id \in Ids |->
                       inferred[id] + Cardinality({ i \in 1..Len(batch) : batch[i] = id })]
    /\ UNCHANGED << workers, models, overlapped, errors, wokenBy, mutations, segIn, segOut, request, response >>
    /\ UNCHANGED << app, batch, transcription_queue, results, written, ws,
                    handler, client_connected, vad, nseq, ppc, pending, cpc,
                    snapshot, flushed, enq, acked, delivered >>

\* The inference call returns its texts, or fails.
InferenceReturn(ok) ==
    /\ app = "running"
    /\ worker = "inferring"
    /\ worker' = IF ok THEN "ok" ELSE "failed"
    /\ UNCHANGED side
    /\ UNCHANGED << app, batch, transcription_queue, results, written, inferred,
                    ws, handler, client_connected, vad, nseq, ppc, pending, cpc,
                    snapshot, flushed, enq, acked, delivered >>

\* The worker takes the condition's lock, writes the outcome of every item
\* of the batch, then wakes every Dispatcher that waits on the condition,
\* and turns to the next batch.
WorkerWrite ==
    /\ app = "running"
    /\ worker \in {"ok", "failed"}
    /\ LockFree
    /\ LET outcome == IF worker = "ok" THEN "text" ELSE "error"
       IN  /\ results' = WriteAll(results, batch, outcome)
           /\ written' = [id \in Ids |->
                             IF id \in Range(batch) THEN outcome ELSE written[id]]
    /\ cpc' = [s \in Sessions |-> IF cpc[s] = "waiting" THEN "woken" ELSE cpc[s]]
    /\ wokenBy' = [s \in Sessions |->
                      IF cpc[s] = "waiting" THEN Range(batch) ELSE wokenBy[s]]
    /\ mutations' = mutations \cup {Mutation("batch_worker", "results", "add", TRUE)}
    /\ batch' = << >>
    /\ worker' = NextBatch(worker)
    /\ UNCHANGED << workers, models, callers, overlapped, errors, segIn, segOut, request, response >>
    /\ UNCHANGED << app, transcription_queue, inferred, ws, handler,
                    client_connected, vad, nseq, ppc, pending, snapshot,
                    flushed, enq, acked, delivered >>

\* -------------------------------------------------- Segmenter on its own
\* vad = StreamingVAD(), then vad.feed(frame) for one frame after another:
\* the windows fed and the utterances emitted are kept.
SegFeed(frame) ==
    /\ Len(segIn) + Len(frame) <= MaxWindows
    /\ LET r == feed(vad[1], frame)
       IN  /\ vad' = [vad EXCEPT ![1] = r.vad]
           /\ segOut' = segOut \o r.out
    /\ segIn' = segIn \o frame
    /\ UNCHANGED << shared, ws, handler, client_connected, nseq, ppc, pending,
                    cpc, snapshot, flushed, enq, acked, delivered, workers, models,
                    callers, overlapped, errors, wokenBy, mutations,
                    request, response >>

\* --------------------------------------------------- one-shot endpoints
\* transcribe_audio_chunk, and transcribe_raw_audio_chunk the same way: the
\* handler takes app.state.asr_model, the object the lifespan gave to the
\* worker, and calls model.transcribe on it itself.  The call does not
\* suspend the handler; it meets the worker's call when that one is in
\* flight.
TranscribeChunk(site, req) ==
    /\ app = "running"
    /\ site \in RouteSites
    /\ request' = [site |-> site, rate |-> req.rate, audio |-> req.audio,
                   model |-> req.model, ret |-> req.ret]
    /\ response' = RouteHandler(site, req)
    /\ IF site \in SharedModelSites /\ CallsModel(req)
         THEN /\ callers' = callers \cup {site}
              /\ overlapped' = (overlapped \/ worker = "inferring")
         ELSE UNCHANGED << callers, overlapped >>
    /\ UNCHANGED << shared, ws, handler, client_connected, vad, nseq, ppc,
                    pending, cpc, snapshot, flushed, enq, acked, delivered,
                    workers, models, errors, wokenBy, mutations, segIn, segOut >>

\* The raw endpoints of src/main.py, the application built on the model
\* wrappers: its lifespan loads the wrappers and starts no worker, and
\* its handlers touch nothing of the streaming pipeline.
TranscribeRaw(site, req) ==
    /\ app = "running"
    /\ site \in MainSites
    /\ request' = [site |-> site, rate |-> req.rate, audio |-> req.audio,
                   model |-> req.model, ret |-> req.ret]
    /\ response' = MainHandler(site, req)
    /\ UNCHANGED << shared, ws, handler, client_connected, vad, nseq, ppc,
                    pending, cpc, snapshot, flushed, enq, acked, delivered,
                    workers, models, callers, overlapped, errors, wokenBy,
                    mutations, segIn, segOut >>

\* ------------------------------------------------------- specification
\* One step of the process, the connections of S sending frames of F.
Step(S, F) ==
    \/ Startup
    \/ Shutdown
    \/ ReleaseModels
    \/ \E s \in S : Accept(s)
    \/ \E s \in S : ClientDisconnect(s)
    \/ \E s \in S : \E frame \in F : ProducerRecv(s, frame)
    \/ \E s \in S : ProducerDisconnect(s)
    \/ \E s \in S : AckOk(s)
    \/ \E s \in S : AckFail(s)
    \/ \E s \in S : ConsumerWake(s)
    \/ \E s \in S : SendOk(s)
    \/ \E s \in S : SendFail(s)
    \/ \E s \in S : HandlerFinally(s)
    \/ WorkerGet
    \/ WorkerCollect
    \/ WorkerInfer
    \/ \E ok \in BOOLEAN : InferenceReturn(ok)
    \/ WorkerWrite

Next == Step(Sessions, Frames \cup BadFrames)

Spec == Init /\ [][Next]_vars

\* The event loop runs every task that can run, a send or receive on a
\* transport ends, and the inference call returns.  Clients owe nothing:
\* no frame, connection or disconnect has to come, nor a shutdown.
Fairness ==
    /\ WF_vars(Startup)
    /\ WF_vars(ReleaseModels)
    /\ WF_vars(WorkerGet \/ WorkerCollect \/ WorkerInfer \/ WorkerWrite)
    /\ WF_vars(\E ok \in BOOLEAN : InferenceReturn(ok))
    /\ \A s \in Sessions :
          /\ WF_vars(ProducerDisconnect(s))
          /\ WF_vars(AckOk(s))
          /\ WF_vars(AckFail(s))
          /\ WF_vars(ConsumerWake(s))
          /\ WF_vars(SendOk(s))
          /\ WF_vars(SendFail(s))
          /\ WF_vars(HandlerFinally(s))

\* Clients that send whole utterances, under the fair scheduling above.
WholeNext == Step(Sessions, WholeFrames)

FairSpec == Init /\ [][WholeNext]_vars /\ Fairness

\* The same with one connection only.
SoloNext == Step({1}, WholeFrames)

SoloFairSpec == Init /\ [][SoloNext]_vars /\ Fairness

\* One connection whose client sends any frame, bad ones too.
SoloFaultNext == Step({1}, Frames \cup BadFrames)

SoloFaultSpec == Init /\ [][SoloFaultNext]_vars /\ Fairness

\* One connection, and clients of the one-shot endpoint.
ApiNext ==
    \/ Step({1}, WholeFrames)
    \/ \E req \in PlainRequests : TranscribeChunk("transcribe_audio_chunk", req)

ApiSpec == Init /\ [][ApiNext]_vars

\* The one-shot endpoints alone, on any of the requests.
EndpointNext ==
    \/ Startup
    \/ Shutdown
    \/ ReleaseModels
    \/ \E site \in RouteSites : \E req \in Requests : TranscribeChunk(site, req)
    \/ \E site \in MainSites : \E req \in Requests : TranscribeRaw(site, req)

EndpointSpec == Init /\ [][EndpointNext]_vars

\* A Segmenter fed any frames, up to MaxWindows windows.
SegNext == \E frame \in Frames : SegFeed(frame)

SegSpec == Init /\ [][SegNext]_vars

\* ========================================================== properties
Owner(e) == e.id.sid

InResults(id) == \E i \in 1..Len(results) : results[i].id = id

InQueue(id) == \E i \in 1..Len(transcription_queue) : transcription_queue[i] = id

\* The session's transport has carried the result of utterance id.
DeliveredOn(s, id) == \E i \in 1..Len(delivered[s]) : delivered[s][i].id = id

\* C1: on a session's transport a result of that session is sent only
\* after the results of all its lower sequence numbers have been sent
\* there, so the session's results appear in the order U1..Un.
C1_PerSessionOrder ==
    \A s \in Sessions : \A i \in 1..Len(delivered[s]) :
        Owner(delivered[s][i]) = s =>
            \A n \in 1..(delivered[s][i].id.seq - 1) :
                \E j \in 1..(i - 1) : delivered[s][j].id = [sid |-> s, seq |-> n]

\* C2: every transcription notification sent on a session's transport
\* carries the outcome of an utterance that session enqueued.
C2_OwnResultsOnly ==
    \A s \in Sessions : \A i \in 1..Len(delivered[s]) : Owner(delivered[s][i]) = s

\* C3: no ResultEntry is forwarded to a transport more than once, and a
\* Dispatcher removes (flushes) only entries of its own session.
C3_ConsumedOnce ==
    /\ \A s, t \in Sessions :
          \A i \in 1..Len(delivered[s]) : \A j \in 1..Len(delivered[t]) :
              delivered[s][i].id = delivered[t][j].id => (s = t /\ i = j)
    /\ \A s \in Sessions : \A i \in 1..Len(flushed[s]) : flushed[s][i].sid = s

\* C4: under fair scheduling, every ResultEntry written for an utterance
\* of a session is eventually sent on that session's transport, unless the
\* session's client disconnects (or the process shuts down).
C4_EventuallyForwarded ==
    \A id \in Ids :
        (written[id] # "none")
            ~> (DeliveredOn(id.sid, id) \/ ws[id.sid] # "open" \/ app = "stopped")

\* C5: under fair scheduling, a ResultEntry that is in the Result Store
\* for a session whose client has disconnected is eventually removed.
C5_NoLeak ==
    \A id \in Ids :
        (InResults(id) /\ ws[id.sid] = "closed")
            ~> (~InResults(id) \/ app = "stopped")

\* C6: under fair scheduling, every utterance on the Work Queue eventually
\* has a ResultEntry (text or error) written for it, unless the process
\* shuts down.
C6_EveryUtteranceAnswered ==
    \A id \in Ids :
        InQueue(id) ~> (written[id] \in {"text", "error"} \/ app = "stopped")

\* C6 witness: the worker has answered one utterance with a text and
\* another with an error.
C6_Witness ==
    \E a, b \in Ids : written[a] = "text" /\ written[b] = "error"

\* C7: the sequence numbers a session has put on the Work Queue, followed
\* by those of the chunks its for loop still has to iterate, are exactly
\* 1..n for the n utterances its Segmenter emitted: nothing is dropped,
\* duplicated or reordered.
C7_EnqueuedAsEmitted ==
    \A s \in Sessions :
        enq[s] \o SeqNos(pending[s]) = [i \in 1..nseq[s] |-> i]

\* C8: when a session's handler has returned, its Segmenter holds no
\* buffered speech: what was buffered at close was flushed and enqueued.
C8_FlushedOnClose ==
    \A s \in Sessions : handler[s] = "closed" => vad[s].buf = 0

\* C9: no utterance is passed to the inference capability more than once.
C9_InferredAtMostOnce ==
    \A id \in Ids : inferred[id] <= 1

\* C9 witness: a batch that merges two sessions' utterances is in
\* inference, each of them for the first time.
C9_Witness ==
    /\ worker = "inferring"
    /\ Len(batch) = 2
    /\ batch[1].sid # batch[2].sid
    /\ inferred[batch[1]] = 1
    /\ inferred[batch[2]] = 1

\* C10: when the inference call of a batch has failed, the worker's write
\* puts an error entry for every item of the batch into the Result Store,
\* and under fair scheduling every such error is eventually sent on the
\* transport of the session that owns it, unless that session's client
\* disconnects (or the process shuts down).
C10_ErrorOutcomeDelivered ==
    /\ [][(worker = "failed" /\ worker' = "idle") =>
             \A i \in 1..Len(batch) :
                 \E j \in 1..Len(results') : results'[j] = Entry(batch[i], "error")]_vars
    /\ \A id \in Ids :
          (written[id] = "error")
              ~> (\/ \E i \in 1..Len(delivered[id.sid]) :
                        delivered[id.sid][i] = Entry(id, "error")
                  \/ ws[id.sid] # "open"
                  \/ app = "stopped")

\* C11: a failed batch does not end the worker loop.  From "failed" the
\* worker goes nowhere but to the wait for its next batch while the
\* application runs, it is cancelled by the shutdown only, and under fair
\* scheduling an utterance that is on the Work Queue once a batch has
\* failed is still passed to inference (unless the process shuts down).
C11_WorkerSurvivesFailure ==
    /\ [][(worker = "failed" /\ app' = "running") =>
             worker' \in {"failed", "idle"}]_vars
    /\ [](worker = "cancelled" => app = "stopped")
    /\ \A id \in Ids :
          (InQueue(id) /\ \E a \in Ids : written[a] = "error")
              ~> (inferred[id] >= 1 \/ app = "stopped")

\* C11 witness: the inference call of a batch has returned its texts
\* after an earlier batch had failed.
C11_Witness ==
    /\ worker = "ok"
    /\ \E a \in Ids : written[a] = "error"

\* C12: the batch worker is the only caller of model.transcribe, and no
\* call of it begins while another is in flight.
C12_SingleFlight ==
    /\ callers \subseteq {"batch_worker"}
    /\ ~overlapped

\* C13: before the startup there is no worker task; from the startup on
\* exactly one has been created, whatever the sessions do, and while the
\* application runs that task is alive (neither missing nor cancelled).
C13_OneWorker ==
    /\ app = "init" => workers = 0
    /\ app # "init" => workers = 1
    /\ app = "running" => worker \notin {"none", "cancelled"}

\* C13 witness: the process has served two sessions and shut down.
C13_Witness ==
    /\ app = "stopped"
    /\ workers = 1
    /\ \A s \in Sessions : handler[s] = "closed"
    /\ \E id \in Ids : written[id] # "none"

C15_LoneItemSubmitted ==
    \A id \in Ids :
        (worker = "collecting" /\ batch = << id >> /\ transcription_queue = << >>)
            ~> (inferred[id] >= 1 \/ app = "stopped")

\* C15 witness: a batch of one item, less than a full batch, is in the
\* inference call and the Work Queue is empty.
C15_Witness ==
    /\ worker = "inferring"
    /\ Len(batch) = 1
    /\ Len(batch) < MaxBatch
    /\ transcription_queue = << >>

\* Length of the run of x that ends the window sequence q.
RECURSIVE TrailingRun(_, _)
TrailingRun(q, x) ==
    IF q = << >> \/ q[Len(q)] # x THEN 0
    ELSE 1 + TrailingRun(SubSeq(q, 1, Len(q) - 1), x)

\* Length of the run of x that begins the window sequence q.
RECURSIVE LeadingRun(_, _)
LeadingRun(q, x) ==
    IF q = << >> \/ Head(q) # x THEN 0 ELSE 1 + LeadingRun(Tail(q), x)

\* The number of bursts of q when q is nothing but speech bursts, each at
\* least MinSpeech and below MaxChunk, each followed by a silence longer
\* than SilenceTimeout; -1 for any other q.
RECURSIVE BurstCount(_)
BurstCount(q) ==
    IF q = << >> THEN 0
    ELSE LET k     == LeadingRun(q, "V")
             after == SubSeq(q, k + 1, Len(q))
             m     == LeadingRun(after, "N")
             rest  == SubSeq(after, m + 1, Len(after))
         IN  IF k >= MinSpeech /\ k < MaxChunk /\ m > SilenceTimeout
             THEN LET c == BurstCount(rest) IN IF c < 0 THEN -1 ELSE c + 1
             ELSE -1

\* C16: whatever frames are fed, every utterance the Segmenter has emitted
\* is at least MinSpeech and at most MaxChunk long, the buffered speech
\* stays below the cap, and a run of MaxChunk or more voiced windows has
\* been flushed: the utterance emitted last is MaxChunk long.
C16_UtteranceBounds ==
    /\ \A i \in 1..Len(segOut) : segOut[i] >= MinSpeech /\ segOut[i] <= MaxChunk
    /\ vad[1].buf < MaxChunk
    /\ TrailingRun(segIn, "V") >= MaxChunk =>
          (segOut # << >> /\ segOut[Len(segOut)] = MaxChunk)

\* C16 witness: after a shortest utterance, continuous speech of twice the
\* cap has been flushed twice.
C16_Witness ==
    /\ TrailingRun(segIn, "V") = 2 * MaxChunk
    /\ Len(segOut) = 3
    /\ segOut[1] = MinSpeech
    /\ segOut[2] = MaxChunk
    /\ segOut[3] = MaxChunk

C18_OneAckAfterPut ==
    /\ [](\A s \in Sessions :
            /\ acked[s] <= Len(enq[s])
            /\ (ws[s] = "open" /\ client_connected[s]) =>
                  acked[s] = Len(enq[s]) - (IF ppc[s] = "acking" THEN 1 ELSE 0))
    /\ \A s \in Sessions : \A n \in 0..MaxUtterances :
          (ppc[s] = "acking" /\ acked[s] = n)
              ~> (acked[s] = n + 1 \/ ws[s] # "open")

\* C18 witness: a connected session has put two utterances on the Work
\* Queue and both are acknowledged.
C18_Witness ==
    \E s \in Sessions :
        /\ ws[s] = "open"
        /\ client_connected[s]
        /\ Len(enq[s]) = 2
        /\ acked[s] = 2

\* A step in which a transport fault of session s happens or is handled:
\* the client goes away, a receive or a send raises, a bad frame arrives.
FaultStep(s) ==
    \/ ClientDisconnect(s)
    \/ ProducerDisconnect(s)
    \/ AckFail(s)
    \/ SendFail(s)
    \/ \E frame \in BadFrames : ProducerRecv(s, frame)

\* The step leaves the worker and every other session's loops as they are.
LoopsUntouched(s) ==
    /\ worker' = worker
    /\ batch' = batch
    /\ transcription_queue' = transcription_queue
    /\ \A t \in Sessions \ {s} :
          /\ ppc'[t] = ppc[t]
          /\ cpc'[t] = cpc[t]
          /\ client_connected'[t] = client_connected[t]
          /\ handler'[t] = handler[t]

\* The step leaves in the Result Store every entry of another session.
ResultsUntouched(s) ==
    \A i \in 1..Len(results) :
        Owner(results[i]) # s => \E j \in 1..Len(results') : results'[j] = results[i]

\* C19: a transport fault of one session, and its handling, ends neither
\* the worker nor another session's producer or consumer, and takes away
\* no result that another session has still to receive.
C19_FaultIsolation ==
    [][\A s \in Sessions : FaultStep(s) => (LoopsUntouched(s) /\ ResultsUntouched(s))]_vars

\* C20: when receive_bytes or vad.feed raises on a frame of a session,
\* an error notification is sent on the session's transport and the
\* producer is back at its receive with the session still connected.
C20_SegmenterFaultReported ==
    [][\A s \in Sessions :
          (\E frame \in BadFrames : ProducerRecv(s, frame)) =>
              /\ errors'[s] = errors[s] + 1
              /\ ppc'[s] = "recv"
              /\ client_connected'[s]]_vars

\* C21: under fair scheduling, once the transport of a session whose
\* handler runs is closed, the consumer ends and the handler returns,
\* whether or not the worker broadcasts again.
C21_HandlerReturnsOnDisconnect ==
    \A s \in Sessions :
        (ws[s] = "closed" /\ handler[s] = "running") ~> (handler[s] = "closed")

\* The identities session s puts on the Work Queue in the step.
NewlyPut(s) ==
    [i \in 1..(Len(enq'[s]) - Len(enq[s])) |->
        [sid |-> s, seq |-> enq'[s][Len(enq[s]) + i]]]

\* C22: a step in which a session puts utterances leaves the Work Queue
\* as it was with those utterances added at the tail, in order; and a
\* producer whose acknowledgement is on an open transport, with chunks of
\* the frame still to put, can go on to its next put whatever the length
\* of the backlog.
C22_EnqueueTailNoBlock ==
    /\ [][\A s \in Sessions :
            Len(enq'[s]) > Len(enq[s]) =>
                transcription_queue' = transcription_queue \o NewlyPut(s)]_vars
    /\ [](\A s \in Sessions :
            (ppc[s] = "acking" /\ ws[s] = "open" /\ pending[s] # << >>) =>
                ENABLED AckOk(s))

\* C22 witness: a session has just put an utterance behind another
\* session's utterance that still waits on the Work Queue.
C22_Witness ==
    \E s \in Sessions :
        /\ ppc[s] = "acking"
        /\ Len(transcription_queue) = 2
        /\ transcription_queue[2].sid = s
        /\ transcription_queue[1].sid # s

\* C23: the step that ends a batch leaves exactly one entry for every
\* item of the batch in the Result Store, with the outcome of the call,
\* and wakes the waiting consumers in that step, not before; and the scan
\* a consumer makes when it has been woken holds every entry of its
\* session that belongs to the batch whose broadcast woke it.
C23_WriteThenWake ==
    /\ [][(worker \in {"ok", "failed"} /\ worker' = "idle") =>
             /\ \A id \in Range(batch) :
                   /\ Cardinality({ j \in 1..Len(results') : results'[j].id = id }) = 1
                   /\ \E j \in 1..Len(results') :
                         results'[j] = Entry(id, IF worker = "ok" THEN "text" ELSE "error")
             /\ \A s \in Sessions :
                   cpc[s] = "waiting" => (cpc'[s] = "woken" /\ wokenBy'[s] = Range(batch))]_vars
    /\ [][\A s \in Sessions :
             (cpc[s] = "woken" /\ client_connected[s] /\ cpc'[s] # "woken") =>
                 \A id \in wokenBy[s] :
                     id.sid = s =>
                         \E j \in 1..Len(snapshot'[s]) : snapshot'[s][j].id = id]_vars

\* C24: every change made to the Work Queue or to the Result Store is
\* made by a task that holds the condition's lock meanwhile, and entries
\* are added to the Result Store by the batch worker only.
C24_MutationUnderLock ==
    \A m \in mutations :
        /\ m.locked
        /\ (m.on = "results" /\ m.op = "add") => m.by = "batch_worker"

\* A send begins on the transport of session s in the step: the producer
\* comes to an acknowledgement, or the consumer to an entry of its scan.
SendStarts(s) ==
    \/ ppc'[s] = "acking" /\ (ppc[s] # "acking" \/ acked'[s] # acked[s])
    \/ cpc'[s] = "sending" /\ (cpc[s] # "sending" \/ delivered'[s] # delivered[s])

\* C25: while client_connected of a session is false no send begins on
\* the session's transport, neither an acknowledgement nor a result.
C25_NoSendAfterDisconnect ==
    [][\A s \in Sessions : ~client_connected[s] => ~SendStarts(s)]_vars

\* C25 witness: the producer has set client_connected to false while the
\* consumer was sending the first of two entries; the consumer has ended
\* after that send and the second entry has not been sent.
C25_Witness ==
    \E s \in Sessions :
        /\ handler[s] = "running"
        /\ ~client_connected[s]
        /\ cpc[s] = "done"
        /\ ws[s] = "open"
        /\ Len(delivered[s]) = 1
        /\ Len(results) = 1
        /\ results[1].id # delivered[s][1].id

\* The entry is in the Result Store before the step and not after it.
Removed(e) ==
    /\ \E i \in 1..Len(results) : results[i] = e
    /\ ~\E j \in 1..Len(results') : results'[j] = e

\* C26: an entry that a step of a session's consumer removes from the
\* Result Store has been sent on that session's transport by then; and the
\* step in which a send fails removes neither the entry of that send nor
\* an entry the scan had still to come to.
C26_PopOnlySent ==
    [][\A s \in Sessions :
          /\ (SendOk(s) \/ SendFail(s)) =>
                \A i \in 1..Len(results) :
                    Removed(results[i]) =>
                        \E k \in 1..Len(delivered'[s]) : delivered'[s][k] = results[i]
          /\ SendFail(s) =>
                \A k \in 1..Len(snapshot[s]) : ~Removed(snapshot[s][k])]_vars

\* C26 witness: the consumer's second send of a scan has failed (the
\* producer has not yet seen the disconnect): the entry sent first is
\* gone from the Result Store, the entry of the failed send is still there.
C26_Witness ==
    \E s \in Sessions :
        /\ ws[s] = "closed"
        /\ ppc[s] = "recv"
        /\ ~client_connected[s]
        /\ cpc[s] = "done"
        /\ Len(delivered[s]) = 1
        /\ Len(results) = 1
        /\ results[1].id # delivered[s][1].id

C28_WorkerEndsBeforeRelease ==
    /\ [](models = "released" => (app = "stopped" /\ worker = "cancelled"))
    /\ [][models = "released" => inferred' = inferred]_vars
    /\ (app = "stopped") ~> (models = "released")

\* C28 witness: the models have been released after a shutdown that
\* cancelled the worker while an inference call was in flight.
C28_Witness ==
    /\ models = "released"
    /\ \E id \in Ids : inferred[id] >= 1 /\ written[id] = "none"


\* The failures of a request, by the message of each: a sample rate of
\* zero, bytes that are no whole samples, a rate the resampler rejects,
\* a model that raises, and a result with nothing to extract from.
Failures(req) ==
    (IF req.rate = 0 THEN {"division by zero"} ELSE {})
    \cup (IF req.audio = "odd" THEN {"buffer length"} ELSE {})
    \cup (IF req.rate < 0 THEN {"resample"} ELSE {})
    \cup (IF req.model = "raises" THEN {"model error"} ELSE {})
    \cup (IF req.ret = PyTuple(<< >>) THEN {"tuple index out of range"} ELSE {})

\* C29: whatever the one-shot endpoint, a request answered is answered
\* with 200 or 422 (no exception leaves the handler); a request on which
\* decoding, resampling or transcribing fails (a sample rate of 0 and a
\* model error among them) is answered 422, the detail being the
\* handler's prefix followed by the message of a failure of the request,
\* and carries no transcription; a request without failure gets its text.
C29_FailureIs422 ==
    request.site # "none" =>
       /\ response.status \in {200, 422}
       /\ Failures(request) # {} =>
             /\ response.status = 422
             /\ Len(response.detail) >= 2
             /\ response.detail[1] = Prefix(request.site)
             /\ response.detail[Len(response.detail)] \in Failures(request)
             /\ response.text = PyNone
       /\ Failures(request) = {} =>
             /\ response.status = 200
             /\ response.text.t = "str"

\* C29 witness: the raw endpoint on the model wrapper has answered 422
\* to a request with sample rate 0, the detail carrying the wrapper's
\* message and the division's.
C29_Witness ==
    /\ request.site = "main.transcribe_raw_audio_chunk"
    /\ request.rate = 0
    /\ request.model = "ok"
    /\ response.status = 422
    /\ response.detail = << "Raw audio transcription failed",
                            "Parakeet transcription failed", "division by zero" >>


\* The text the extraction is to give for a result: the result, or the
\* first element of it when it is a tuple, is looked at; a list with
\* elements gives the text attribute of its first element, or that
\* element's string form when it has no such attribute; anything else
\* gives its string form when truthy and the empty string when not.
LookedAt(ret) == IF ret.t = "tuple" THEN Head(ret.items) ELSE ret

TextOf(ret) ==
    LET looked == LookedAt(ret)
    IN  CASE looked.t = "list" /\ looked.items # << >> ->
               LET first == Head(looked.items)
               IN  IF first.t = "hyp" THEN PyStr(first.text) ELSE Str(first)
          [] OTHER ->
               IF Truthy(looked) THEN Str(looked) ELSE PyStr("")

\* C30: whichever handler or wrapper made the inference call, the text
\* of a request answered 200 is the extraction described above of what
\* the model returned; and on every result tried from which a text can
\* be extracted the route handlers' extraction and the wrappers' agree.
C30_SameExtraction ==
    /\ (request.site # "none" /\ response.status = 200) =>
           response.text = TextOf(request.ret)
    /\ \A ret \in Returns :
           ~ExtractRaises(ret) =>
              /\ ExtractText(ret) = InferText(ret)
              /\ ExtractText(ret) = TextOf(ret)

\* C30 witness: the Canary endpoint on the model wrapper has answered a
\* request for which the model returned a tuple led by a list whose
\* first element is a plain str, with that str as the text.
C30_Witness ==
    /\ request.site = "main.transcribe_raw_audio_chunk_canary"
    /\ request.ret = PyTuple(<< PyList(<< PyStr("raw"), Hello >>) >>)
    /\ response.status = 200
    /\ response.text = PyStr("raw")

====
